---- MODULE Spec2Model ----
(***************************************************************************)
(* PrevMed: question-flow navigation of a conditional questionnaire.       *)
(* Model of src/PrevMed/utils/logic.py (condition evaluation and the scan  *)
(* for the next eligible question), src/PrevMed/utils/gui.py (the handlers *)
(* load, go_next, go_prev, compute_score and the display projection) and   *)
(* src/PrevMed/utils/scoring.py (the scoring boundary).                    *)
(*                                                                         *)
(* Indices are 0-based as in the source: question i of a list qs is        *)
(* qs[i + 1], and N = Len(qs) is the terminal index.                       *)
(***************************************************************************)
EXTENDS Integers, Sequences, FiniteSets, TLC

(***************************************************************************)
(* Bounds of the model.                                                    *)
(***************************************************************************)
\* longest question list
MaxN == 3
\* scoring calls counted per session before the session stops advancing
MaxScoringCalls == 1
\* most rows (header included) of a table returned by a scoring function
MaxRows == 2
\* sessions that complete a questionnaire at the same time
MaxSessions == 2
\* rows at which the CSV log is rotated; stands for the 1000 of pdf.py:156
RotateRows == 3
\* FileLock(csv_lock_file, timeout=10), seconds (pdf.py:136)
LockWait == 10

(***************************************************************************)
(* Python values held by widgets.  One record shape for every value so     *)
(* that any two values can be compared: t is the Python type, s the        *)
(* characters of a str, n the number of an int or bool (False = 0,         *)
(* True = 1, as in Python where bool is a subclass of int).                *)
(***************************************************************************)
PyNone == [t |-> "none", s |-> << >>, n |-> 0]
PyStr(chars) == [t |-> "str", s |-> chars, n |-> 0]
PyInt(k) == [t |-> "int", s |-> << >>, n |-> k]
PyBool(b) == [t |-> "bool", s |-> << >>, n |-> IF b THEN 1 ELSE 0]

StrEmpty == PyStr(<< >>)
StrBlank == PyStr(<<" ">>)
StrNo == PyStr(<<"n", "o">>)
StrYes == PyStr(<<"y", "e", "s">>)

\* str.strip(): drop leading and trailing whitespace characters
RECURSIVE LStrip(_)
LStrip(chars) ==
    IF chars = << >> THEN << >>
    ELSE IF Head(chars) = " " THEN LStrip(Tail(chars))
    ELSE chars

RECURSIVE RStrip(_)
RStrip(chars) ==
    IF chars = << >> THEN << >>
    ELSE IF chars[Len(chars)] = " " THEN RStrip(SubSeq(chars, 1, Len(chars) - 1))
    ELSE chars

Strip(chars) == RStrip(LStrip(chars))

(***************************************************************************)
(* Condition expressions (the strings given to eval).  op is the shape of  *)
(* the expression, var the 0-based index of the question whose variable it *)
(* names, lit the literal it compares with.                                *)
(*   "absent" : the question dict has no such key                          *)
(*   "null"   : the key is present with an empty value (None or "")        *)
(*   "eq"     : the expression  <var> == <lit>                             *)
(*   "ne"     : the expression  <var> != <lit>                             *)
(*   "ge"     : the expression  <var> >= <lit>                             *)
(***************************************************************************)
Cond(op, var, lit) == [op |-> op, var |-> var, lit |-> lit]
KeyAbsent == Cond("absent", 0, PyNone)
KeyNull == Cond("null", 0, PyNone)

IsNumber(v) == v.t \in {"int", "bool"}

\* Python  a == b : never raises; numbers compare by value, str by content
PyEq(a, b) ==
    IF IsNumber(a) /\ IsNumber(b) THEN a.n = b.n
    ELSE IF a.t = "str" /\ b.t = "str" THEN a.s = b.s
    ELSE a.t = "none" /\ b.t = "none"

\* eval(condition, {"__builtins__": {}}, context) followed by bool():
\* "T" or "F" when the evaluation succeeds, "E" when it raises
\* (TypeError for a non-string condition or an unordered comparison,
\* SyntaxError for an empty string, NameError for a name not in context).
EvalCond(condition, context) ==
    CASE condition.op \in {"absent", "null"} -> "E"
      [] condition.op = "ne" ->
            IF condition.var + 1 \notin DOMAIN context THEN "E"
            ELSE IF PyEq(context[condition.var + 1], condition.lit) THEN "F" ELSE "T"
      [] condition.op = "eq" ->
            IF condition.var + 1 \notin DOMAIN context THEN "E"
            ELSE IF PyEq(context[condition.var + 1], condition.lit) THEN "T" ELSE "F"
      [] condition.op = "ge" ->
            IF condition.var + 1 \notin DOMAIN context THEN "E"
            ELSE IF ~IsNumber(context[condition.var + 1]) THEN "E"
            ELSE IF context[condition.var + 1].n >= condition.lit.n THEN "T" ELSE "F"
      [] OTHER -> "E"

\* logic.py evaluate_skip_if: True/False, or RuntimeError when eval raises
evaluate_skip_if(condition, context) == EvalCond(condition, context)

\* logic.py evaluate_valid_if: True/False, or RuntimeError when eval raises
evaluate_valid_if(condition, context) == EvalCond(condition, context)

(***************************************************************************)
(* Questions.  A question keeps the keys the navigation code reads:        *)
(* widget, skip_if, valid_if, whether widget_args has a "default" key and  *)
(* whether the question has an invalid_message.                            *)
(***************************************************************************)
Question(widget, skip, valid, dflt, msg) ==
    [widget |-> widget, skip_if |-> skip, valid_if |-> valid,
     has_default |-> dflt, has_invalid_message |-> msg]

\* The question kinds the model draws question lists from; i is the 0-based
\* position of the question, whose variable a valid_if names.
\*   QText       free text, no condition
\*   QCheck      checkbox, skip_if "q1 != 'yes'" (q1 is the first question's
\*               variable: as first question it is always skipped)
\*   QAge        number, valid_if "<own> >= 18" with an invalid_message
\*   QAgeDefault number with a default, valid_if "<own> >= 18", no message
\*   QSenior     radio, skip_if "q1 >= 65", valid_if "<own> == 'yes'", no message
\*   QNullSkip   skip_if present but empty
\*   QSkipNo     checkbox, skip_if "q1 == 'no'"; drawn as second question only
\*   QAgeSkipYes number with a default, skip_if "q1 == 'yes'", valid_if
\*               "<own> >= 18", no message; drawn as third question only
\*   QRadioSkipYes radio without default, skip_if "q1 == 'yes'"; drawn as third
\*               question only
QText(i) == Question("Textbox", KeyAbsent, KeyAbsent, FALSE, FALSE)
QCheck(i) == Question("Checkbox", Cond("ne", 0, StrYes), KeyAbsent, FALSE, FALSE)
QAge(i) == Question("Number", KeyAbsent, Cond("ge", i, PyInt(18)), FALSE, TRUE)
QAgeDefault(i) == Question("Number", KeyAbsent, Cond("ge", i, PyInt(18)), TRUE, FALSE)
QSenior(i) ==
    Question("Radio", Cond("ge", 0, PyInt(65)), Cond("eq", i, StrYes), FALSE, FALSE)
QNullSkip(i) == Question("Radio", KeyNull, KeyAbsent, FALSE, FALSE)
QSkipNo(i) == Question("Checkbox", Cond("eq", 0, StrNo), KeyAbsent, FALSE, FALSE)
QAgeSkipYes(i) ==
    Question("Number", Cond("eq", 0, StrYes), Cond("ge", i, PyInt(18)), TRUE, FALSE)
QRadioSkipYes(i) == Question("Radio", Cond("eq", 0, StrYes), KeyAbsent, FALSE, FALSE)

\* the positions at which a QSkipNo question is drawn
SkipNoPositions == {1}

\* the positions at which a QAgeSkipYes or QRadioSkipYes question is drawn
SkipYesPositions == {2}

QuestionKinds(i) ==
    {QText(i), QCheck(i), QAge(i), QAgeDefault(i), QSenior(i), QNullSkip(i)}
        \cup (IF i \in SkipNoPositions THEN {QSkipNo(i)} ELSE {})
        \cup (IF i \in SkipYesPositions THEN {QAgeSkipYes(i), QRadioSkipYes(i)} ELSE {})

\* every question list of 1..MaxN questions
QuestionLists ==
    UNION {{qs \in [1..n -> UNION {QuestionKinds(i) : i \in 0..(n - 1)}] :
                \A k \in 1..n : qs[k] \in QuestionKinds(k - 1)} : n \in 1..MaxN}

\* the values a widget of each type can hold
WidgetValues(widget) ==
    CASE widget = "Textbox" -> {StrEmpty, StrBlank, StrNo, StrYes}
      [] widget = "Checkbox" -> {PyBool(FALSE), PyBool(TRUE)}
      [] widget = "Number" -> {PyNone, PyInt(0), PyInt(20)}
      [] OTHER -> {PyNone, StrNo, StrYes}

\* the value a widget holds when it is created without a value
InitialValue(widget) ==
    CASE widget = "Textbox" -> StrEmpty
      [] widget = "Checkbox" -> PyBool(FALSE)
      [] OTHER -> PyNone

\* every tuple of widget values that can be submitted with a question list
Contexts(qs) ==
    {ctx \in [1..Len(qs) -> UNION {WidgetValues(qs[k].widget) : k \in 1..Len(qs)}] :
        \A k \in 1..Len(qs) : ctx[k] \in WidgetValues(qs[k].widget)}

(***************************************************************************)
(* Results of calls that can raise.                                        *)
(***************************************************************************)
Ret(v) == [ok |-> TRUE, val |-> v]
Raised == [ok |-> FALSE, val |-> 0]

(***************************************************************************)
(* logic.py find_next_valid_question                                       *)
(***************************************************************************)
\* FindScan that takes a skip_if that fails to evaluate for a skipped question
\* and scans on
RECURSIVE FindScan_ErrorAsSkipped(_, _, _, _)
FindScan_ErrorAsSkipped(idx, qs, context, direction) ==
    IF 0 <= idx /\ idx < Len(qs)
    THEN IF qs[idx + 1].skip_if.op = "absent" THEN Ret(idx)
         ELSE LET r == evaluate_skip_if(qs[idx + 1].skip_if, context)
              IN  IF r = "F" THEN Ret(idx)
                  ELSE FindScan_ErrorAsSkipped(idx + direction, qs, context, direction)
    ELSE Ret(IF idx >= Len(qs) THEN idx ELSE 0)

\* FindScan with the test of skip_if inverted: stops on a skipped question
RECURSIVE FindScan_Inverted(_, _, _, _)
FindScan_Inverted(idx, qs, context, direction) ==
    IF 0 <= idx /\ idx < Len(qs)
    THEN IF qs[idx + 1].skip_if.op = "absent" THEN Ret(idx)
         ELSE LET r == evaluate_skip_if(qs[idx + 1].skip_if, context)
              IN  IF r = "E" THEN Raised
                  ELSE IF r = "T" THEN Ret(idx)
                  ELSE FindScan_Inverted(idx + direction, qs, context, direction)
    ELSE Ret(IF idx >= Len(qs) THEN idx ELSE 0)

\* FindScan without the boundary policy: returns the index the loop ended on
RECURSIVE FindScan_NoClamp(_, _, _, _)
FindScan_NoClamp(idx, qs, context, direction) ==
    IF 0 <= idx /\ idx < Len(qs)
    THEN IF qs[idx + 1].skip_if.op = "absent" THEN Ret(idx)
         ELSE LET r == evaluate_skip_if(qs[idx + 1].skip_if, context)
              IN  IF r = "E" THEN Raised
                  ELSE IF r = "F" THEN Ret(idx)
                  ELSE FindScan_NoClamp(idx + direction, qs, context, direction)
    ELSE Ret(idx)

\* FindScan whose forward boundary is one past the terminal index
RECURSIVE FindScan_PastEnd(_, _, _, _)
FindScan_PastEnd(idx, qs, context, direction) ==
    IF 0 <= idx /\ idx < Len(qs)
    THEN IF qs[idx + 1].skip_if.op = "absent" THEN Ret(idx)
         ELSE LET r == evaluate_skip_if(qs[idx + 1].skip_if, context)
              IN  IF r = "E" THEN Raised
                  ELSE IF r = "F" THEN Ret(idx)
                  ELSE FindScan_PastEnd(idx + direction, qs, context, direction)
    ELSE Ret(IF idx >= Len(qs) THEN idx + 1 ELSE 0)

\* the while loop of find_next_valid_question, entered with idx
RECURSIVE FindScan(_, _, _, _)
FindScan(idx, qs, context, direction) ==
    IF 0 <= idx /\ idx < Len(qs)
    THEN IF qs[idx + 1].skip_if.op = "absent" THEN Ret(idx)
         ELSE LET r == evaluate_skip_if(qs[idx + 1].skip_if, context)
              IN  IF r = "E" THEN Raised
                  ELSE IF r = "F" THEN Ret(idx)
                  ELSE FindScan(idx + direction, qs, context, direction)
    ELSE Ret(IF idx >= Len(qs) THEN idx ELSE 0)

\* the questions the while loop of find_next_valid_question, entered with
\* idx, examines before it returns or raises
RECURSIVE FindExamined(_, _, _, _)
FindExamined(idx, qs, context, direction) ==
    IF 0 <= idx /\ idx < Len(qs)
    THEN IF qs[idx + 1].skip_if.op = "absent" THEN 1
         ELSE LET r == evaluate_skip_if(qs[idx + 1].skip_if, context)
              IN  IF r \in {"E", "F"} THEN 1
                  ELSE 1 + FindExamined(idx + direction, qs, context, direction)
    ELSE 0

\* find_next_valid_question that takes the neighbouring index without a scan
find_next_valid_question_Blind(current_idx, qs, context, direction) ==
    Ret(IF current_idx + direction < 0 THEN 0 ELSE current_idx + direction)

\* find_next_valid_question that starts the scan at current_idx itself
find_next_valid_question_FromCurrent(current_idx, qs, context, direction) ==
    FindScan(current_idx, qs, context, direction)

find_next_valid_question(current_idx, qs, context, direction) ==
    FindScan(current_idx + direction, qs, context, direction)

(***************************************************************************)
(* scoring.py: the scoring boundary.  What the user-supplied scoring       *)
(* function does is opaque; the model draws it from RawResults.  A table   *)
(* is the sequence of its rows' lengths, header row first.                 *)
(***************************************************************************)
RowLens == {1, 2}

Tables == UNION {[1..n -> RowLens] : n \in 0..MaxRows}

Raw(kind, table) == [kind |-> kind, table |-> table]

\* "raises": the scoring function raises (or is not defined);
\* "not_tuple3": it returns something that is not a 3-element result;
\* "tuple3": it returns (markdown, table, options)
RawResults ==
    {Raw("raises", << >>), Raw("not_tuple3", << >>)}
        \cup {Raw("tuple3", t) : t \in Tables}

Rectangular(table) ==
    Len(table) > 0 /\ \A i \in 1..Len(table) : table[i] = table[1]

\* execute_scoring_python without the comparison of the rows' lengths
execute_scoring_python_NoRowCheck(raw) ==
    IF raw.kind # "tuple3" THEN Raised
    ELSE IF Len(raw.table) = 0 THEN Raised
    ELSE [ok |-> TRUE, val |-> raw.table]

\* scoring.py execute_scoring_python: every failure is re-raised as RuntimeError
execute_scoring_python(raw) ==
    IF raw.kind # "tuple3" THEN Raised
    ELSE IF Len(raw.table) = 0 THEN Raised
    ELSE IF \E i \in 2..Len(raw.table) : raw.table[i] # raw.table[1] THEN Raised
    ELSE [ok |-> TRUE, val |-> raw.table]

\* scoring.py execute_scoring_r: only the number of elements is checked
execute_scoring_r(raw) ==
    IF raw.kind # "tuple3" THEN Raised
    ELSE [ok |-> TRUE, val |-> raw.table]

ScoringLanguages == {"python", "r"}

\* scoring.py execute_scoring
execute_scoring(language, raw) ==
    IF language = "r" THEN execute_scoring_r(raw)
    ELSE IF language = "python" THEN execute_scoring_python(raw)
    ELSE Raised

(***************************************************************************)
(* State.                                                                  *)
(***************************************************************************)
VARIABLES
    questions,              \* the question list, sorted by order (gui.py:129)
    scoring_language,       \* 'r' or 'python' (gui.py:97)
    loaded,                 \* the demo.load event of this page has run
    current_question_idx,   \* gr.State(0) (gui.py:178)
    row_visible,            \* visible of each question's gr.Row
    widget_interactive,     \* interactive of each question's widget
    widget_value,           \* value of each question's widget
    prev_visible,           \* prev_btn.visible
    next_visible,           \* next_btn.visible
    next_label,             \* next_btn.value
    result_visible,         \* result_output.visible
    pdf_visible,            \* pdf_download.visible
    error_visible,          \* error_output.visible
    last,                   \* the last handler call: which, from which index, how it
                            \* ended, its gr.Warning,
                            \* the inputs it gave to execute_scoring
    scoring_calls,          \* calls of execute_scoring in this session
    retreated,              \* go_prev was requested in this session
    shown_at,               \* per question, the smallest display index at which a
                            \* returned projection showed its row; Never if none did
    fn_call,                \* a direct call of find_next_valid_question
    progress_call,          \* a direct evaluation of the progress counts of
                            \* update_question_display
    save_user_data,         \* settings.save_user_data (settings.py:23)
    lock_holder,            \* the sessions inside "with lock" of the CSV log
    pc,                     \* per session, where its generate_pdf_report is
    waited,                 \* per session, seconds spent waiting for the lock
    existing_rows,          \* per session, the rows append_to_csv_log read
    main_csv,               \* rows of survey_submissions.csv, oldest first
    temp_csv,               \* rows of survey_submissions.csv.tmp
    files,                  \* the other files and directories on disk
    append_result,          \* per session, how its append_to_csv_log ended
    report,                 \* per session, what generate_pdf_report gave go_next
    peer,                   \* the state of a second session of the interface
    yaml_call               \* a call of load_yaml by create_survey_interface

cfgVars == <<questions, scoring_language>>
projVars == <<row_visible, widget_interactive, prev_visible, next_visible, next_label>>
resultVars == <<result_visible, pdf_visible, error_visible>>
ghostVars == <<last, scoring_calls, retreated, shown_at>>
callVars == <<fn_call, progress_call>>
guiVars == <<cfgVars, loaded, current_question_idx, widget_value, projVars,
             resultVars, ghostVars, callVars>>
logVars == <<save_user_data, lock_holder, pc, waited, existing_rows, main_csv,
             temp_csv, files, append_result, report>>
sideVars == <<logVars, peer, yaml_call>>
vars == <<guiVars, sideVars>>

N == Len(questions)

\* no projection has shown the question's row yet: past every display index
Never == N + 1

(***************************************************************************)
(* gui.py update_question_display                                          *)
(***************************************************************************)
\* questions[i].get("skip_if", None) is falsy: key absent, None or ""
SkipFalsy(q) == q.skip_if.op \in {"absent", "null"}

\* DisplayScan that keeps the requested index, skipped or not
DisplayScan_NoScan(display_idx, qs, context) == Ret(display_idx)

\* gui.py:262-271, the scan for the index to display
RECURSIVE DisplayScan(_, _, _)
DisplayScan(display_idx, qs, context) ==
    IF 0 <= display_idx /\ display_idx < Len(qs)
    THEN IF SkipFalsy(qs[display_idx + 1]) THEN Ret(display_idx)
         ELSE LET r == evaluate_skip_if(qs[display_idx + 1].skip_if, context)
              IN  IF r = "E" THEN Raised
                  ELSE IF r = "F" THEN Ret(display_idx)
                  ELSE DisplayScan(display_idx + 1, qs, context)
    ELSE Ret(display_idx)

Max2(a, b) == IF a >= b THEN a ELSE b
Min2(a, b) == IF a <= b THEN a ELSE b

\* gui.py:282, first index whose row and widget are recomputed
StartIdx(display_idx) == Max2(0, display_idx - 1)

\* gui.py:290-294, "E" when evaluate_skip_if raises
ConditionMet(q, context) ==
    IF SkipFalsy(q) THEN "T"
    ELSE LET r == evaluate_skip_if(q.skip_if, context)
         IN  IF r = "E" THEN "E" ELSE IF r = "T" THEN "F" ELSE "T"

\* gui.py:296-305
IsVisible(i, current_idx, display_idx, qs, context) ==
    IF i <= current_idx THEN ConditionMet(qs[i + 1], context) = "T" ELSE FALSE

IsInteractive(i, current_idx, display_idx, qs, context) ==
    IF i <= current_idx
    THEN (i = display_idx) /\ ConditionMet(qs[i + 1], context) = "T"
    ELSE FALSE

\* PrevVisible that hides Previous at the terminal index only
PrevVisible_FromZero(display_idx, qs) == display_idx < Len(qs)

\* gui.py:317
PrevVisible(display_idx, qs) == display_idx > 0 /\ display_idx < Len(qs)

\* NextVisible that still shows Next at the terminal index
NextVisible_AtTerminal(display_idx, qs) == display_idx <= Len(qs)

\* gui.py:318
NextVisible(display_idx, qs) == display_idx < Len(qs)

\* gui.py:328 and 336, the test of the two counts; "E" when it raises
CountsAsValid(q, context) ==
    IF q.skip_if.op = "absent" THEN "T"
    ELSE LET r == evaluate_skip_if(q.skip_if, context)
         IN  IF r = "E" THEN "E" ELSE IF r = "T" THEN "F" ELSE "T"

\* TotalValid that counts every question, skipped or not
TotalValid_CountAll(qs, context) == Len(qs)

\* gui.py:325-329
TotalValid(qs, context) ==
    Cardinality({i \in 0..(Len(qs) - 1) : CountsAsValid(qs[i + 1], context) = "T"})

\* CurrentValid that counts every question up to display_idx, skipped or not
CurrentValid_CountAll(display_idx, qs, context) ==
    Min2(display_idx, Len(qs) - 1) + 1

\* gui.py:333-337, questions[: display_idx + 1]
CurrentValid(display_idx, qs, context) ==
    Cardinality({i \in 0..Min2(display_idx, Len(qs) - 1) :
                    CountsAsValid(qs[i + 1], context) = "T"})

Label(kind, cur, tot) == [kind |-> kind, cur |-> cur, tot |-> tot]

\* gui.py:340-348
NextBtnLabel(display_idx, qs, context) ==
    IF display_idx < Len(qs)
    THEN IF TotalValid(qs, context) > 0
         THEN Label("fraction", CurrentValid(display_idx, qs, context),
                    TotalValid(qs, context))
         ELSE Label("plain", 0, 0)
    ELSE Label("done", 0, 0)

\* some evaluate_skip_if of the row loop or of the counts raises
ProjectionRaises(display_idx, qs, context) ==
    \/ \E i \in StartIdx(display_idx)..(Len(qs) - 1) :
            ConditionMet(qs[i + 1], context) = "E"
    \/ \E i \in 0..(Len(qs) - 1) : CountsAsValid(qs[i + 1], context) = "E"

\* The updates dict of update_question_display(current_idx, *args), applied
\* to the components' present properties rv (rows) and wi (widgets):
\* components outside the recomputed window keep what they have.
update_question_display(current_idx, qs, args, rv, wi) ==
    LET scan == DisplayScan(current_idx, qs, args)
        d == scan.val
    IN  IF ~scan.ok THEN [ok |-> FALSE]
        ELSE IF ProjectionRaises(d, qs, args) THEN [ok |-> FALSE]
        ELSE [ok |-> TRUE,
              display_idx |-> d,
              row_visible |->
                [i \in 0..(Len(qs) - 1) |->
                    IF i >= StartIdx(d)
                    THEN IsVisible(i, current_idx, d, qs, args) ELSE rv[i]],
              widget_interactive |->
                [i \in 0..(Len(qs) - 1) |->
                    IF i >= StartIdx(d)
                    THEN IsInteractive(i, current_idx, d, qs, args) ELSE wi[i]],
              prev_visible |-> PrevVisible(d, qs),
              next_visible |-> NextVisible(d, qs),
              next_label |-> NextBtnLabel(d, qs, args)]

(***************************************************************************)
(* The interface as create_survey_interface builds it (gui.py:177-222).    *)
(***************************************************************************)
NoWarning == [kind |-> "none", q |-> 0]
Warning(kind, q) == [kind |-> kind, q |-> q]
NoRaw == Raw("none", << >>)
Last(op, outcome, warning) ==
    [op |-> op, from |-> current_question_idx, outcome |-> outcome,
     warning |-> warning, inputs |-> << >>, raw |-> NoRaw]
\* a go_next that called execute_scoring(inputs), whose scoring function did raw
Scored(outcome, inputs, raw) ==
    [op |-> "go_next", from |-> current_question_idx, outcome |-> outcome,
     warning |-> NoWarning, inputs |-> inputs, raw |-> raw]
NoCall == [called |-> FALSE, context |-> << >>, current_idx |-> 0,
           direction |-> 1, result |-> Raised]
NoProgressCall == [called |-> FALSE, context |-> << >>, display_idx |-> 0,
                   ok |-> FALSE, current_valid |-> 0, total_valid |-> 0]

\* the components of a freshly served page and the session's gr.State
Constructed ==
    /\ loaded = FALSE
    /\ current_question_idx = 0
    /\ row_visible = [i \in 0..(N - 1) |-> i = 0]
    /\ widget_interactive = [i \in 0..(N - 1) |-> TRUE]
    /\ widget_value = [k \in 1..N |-> InitialValue(questions[k].widget)]
    /\ prev_visible = FALSE
    /\ next_visible = TRUE
    /\ next_label = Label("fraction", 1, N)
    /\ result_visible = FALSE
    /\ pdf_visible = FALSE
    /\ error_visible = FALSE
    /\ last = Last("none", "ok", NoWarning)
    /\ scoring_calls = 0
    /\ retreated = FALSE
    /\ shown_at = [i \in 0..(N - 1) |-> Never]

\* the sessions that complete a questionnaire
Sessions == 1..MaxSessions

\* neither survey_data nor temp_pdfs exists
NoFiles == [archived |-> {}, fallback |-> {}, json |-> {}, pdf_saved |-> {},
            pdf_temp |-> {}, data_dir |-> FALSE, temp_dir |-> FALSE]

\* no session has completed a questionnaire
NoReport ==
    /\ lock_holder = {}
    /\ pc = [s \in Sessions |-> "idle"]
    /\ waited = [s \in Sessions |-> 0]
    /\ existing_rows = [s \in Sessions |-> << >>]
    /\ temp_csv = << >>
    /\ append_result = [s \in Sessions |-> "not_called"]
    /\ report = [s \in Sessions |-> "none"]

\* no second session is open
NoPeer == [open |-> FALSE]

NoYamlCall == [called |-> FALSE, orders |-> << >>, accepted |-> FALSE]

Init ==
    /\ questions \in QuestionLists
    /\ scoring_language \in ScoringLanguages
    /\ Constructed
    /\ fn_call = NoCall
    /\ progress_call = NoProgressCall
    /\ save_user_data = FALSE
    /\ main_csv = << >>
    /\ files = NoFiles
    /\ NoReport
    /\ peer = NoPeer
    /\ yaml_call = NoYamlCall

\* the outputs of a handler that returns the updates dict u
ApplyDisplay(u) ==
    /\ current_question_idx' = u.display_idx
    /\ row_visible' = u.row_visible
    /\ widget_interactive' = u.widget_interactive
    /\ prev_visible' = u.prev_visible
    /\ next_visible' = u.next_visible
    /\ next_label' = u.next_label
    /\ shown_at' =
            [i \in 0..(N - 1) |->
                IF u.row_visible[i] THEN Min2(u.display_idx, shown_at[i])
                ELSE shown_at[i]]

\* a handler that raises updates none of its outputs
NoOutputs ==
    UNCHANGED <<current_question_idx, projVars, resultVars, shown_at>>

(***************************************************************************)
(* demo.load (gui.py:732-739): update_question_display on the state 0      *)
(***************************************************************************)
load ==
    /\ ~loaded
    /\ loaded' = TRUE
    /\ LET u == update_question_display(current_question_idx, questions,
                                        widget_value, row_visible, widget_interactive)
       IN  IF u.ok
           THEN /\ ApplyDisplay(u)
                /\ last' = Last("load", "ok", NoWarning)
           ELSE /\ UNCHANGED <<current_question_idx, projVars, shown_at>>
                /\ last' = Last("load", "raised", NoWarning)
    /\ UNCHANGED <<cfgVars, widget_value, resultVars, scoring_calls,
                   retreated, callVars, sideVars>>

(***************************************************************************)
(* The respondent changes the value of the widget they can reach: one that *)
(* is shown and interactive.                                               *)
(***************************************************************************)
Edit ==
    /\ loaded
    /\ \E i \in 0..(N - 1) :
        /\ row_visible[i] /\ widget_interactive[i]
        /\ \E v \in WidgetValues(questions[i + 1].widget) :
            /\ v # widget_value[i + 1]
            /\ widget_value' = [widget_value EXCEPT ![i + 1] = v]
    /\ UNCHANGED <<cfgVars, loaded, current_question_idx, projVars, resultVars,
                   ghostVars, callVars, sideVars>>

(***************************************************************************)
(* reload_btn (gui.py:743): location.reload() serves a fresh page          *)
(***************************************************************************)
Reload ==
    /\ loaded
    /\ loaded' = FALSE
    /\ current_question_idx' = 0
    /\ row_visible' = [i \in 0..(N - 1) |-> i = 0]
    /\ widget_interactive' = [i \in 0..(N - 1) |-> TRUE]
    /\ widget_value' = [k \in 1..N |-> InitialValue(questions[k].widget)]
    /\ prev_visible' = FALSE
    /\ next_visible' = TRUE
    /\ next_label' = Label("fraction", 1, N)
    /\ result_visible' = FALSE
    /\ pdf_visible' = FALSE
    /\ error_visible' = FALSE
    /\ last' = [Last("none", "ok", NoWarning) EXCEPT !.from = 0]
    /\ scoring_calls' = 0
    /\ retreated' = FALSE
    /\ shown_at' = [i \in 0..(N - 1) |-> Never]
    /\ UNCHANGED <<cfgVars, callVars, sideVars>>

(***************************************************************************)
(* go_next (gui.py:366-588)                                                *)
(***************************************************************************)
\* is_empty without strip(): only the empty string is empty
is_empty_NoStrip(current_value) ==
    current_value.t = "none"
        \/ (current_value.t = "str" /\ current_value.s = << >>)

\* gui.py:401-403
is_empty(current_value) ==
    current_value.t = "none"
        \/ (current_value.t = "str" /\ Strip(current_value.s) = << >>)

\* ValidationGate that never uses the question's invalid_message
ValidationGate_GenericOnly(current_idx, qs, args) ==
    LET current_question == qs[current_idx + 1]
        current_value == args[current_idx + 1]
    IN  IF ~current_question.has_default /\ is_empty(current_value)
        THEN [kind |-> "unanswered", q |-> current_idx]
        ELSE IF current_question.valid_if.op = "absent" THEN [kind |-> "none", q |-> 0]
        ELSE LET is_valid == evaluate_valid_if(current_question.valid_if, args)
             IN  IF is_valid = "E" THEN [kind |-> "valid_if_error", q |-> current_idx]
                 ELSE IF is_valid = "T" THEN [kind |-> "none", q |-> 0]
                 ELSE [kind |-> "generic_invalid", q |-> current_idx]

\* gui.py:390-456, the gate before navigation: NoWarning when the advance
\* may proceed, otherwise the gr.Warning of the rejection
ValidationGate(current_idx, qs, args) ==
    LET current_question == qs[current_idx + 1]
        current_value == args[current_idx + 1]
    IN  IF ~current_question.has_default /\ is_empty(current_value)
        THEN Warning("unanswered", current_idx)
        ELSE IF current_question.valid_if.op = "absent" THEN NoWarning
        ELSE LET is_valid == evaluate_valid_if(current_question.valid_if, args)
             IN  IF is_valid = "E" THEN Warning("valid_if_error", current_idx)
                 ELSE IF is_valid = "T" THEN NoWarning
                 ELSE IF current_question.has_invalid_message
                      THEN Warning("invalid_message", current_idx)
                      ELSE Warning("generic_invalid", current_idx)

\* the handler raises: Gradio updates no output
HandlerRaises(op, warning) ==
    /\ NoOutputs
    /\ last' = Last(op, "raised", warning)
    /\ UNCHANGED scoring_calls

\* gui.py:405-416, 435-437, 452-456: warn and redisplay the same index
GoNextRejected(warning) ==
    LET u == update_question_display(current_question_idx, questions,
                                     widget_value, row_visible, widget_interactive)
    IN  IF u.ok
        THEN /\ ApplyDisplay(u)
             /\ last' = Last("go_next", "rejected", warning)
             /\ UNCHANGED <<resultVars, scoring_calls>>
        ELSE HandlerRaises("go_next", warning)

\* GoNextTerminal whose except branch leaves the result panel shown
GoNextTerminal_ResultKept(u) ==
    /\ scoring_calls < MaxScoringCalls
    /\ ApplyDisplay(u)
    /\ scoring_calls' = scoring_calls + 1
    /\ \E raw \in RawResults :
        LET scored == execute_scoring(scoring_language, raw)
        IN  IF scored.ok
            THEN \E pdf_ok \in BOOLEAN :
                    IF pdf_ok
                    THEN /\ result_visible' = TRUE
                         /\ pdf_visible' = TRUE
                         /\ error_visible' = FALSE
                         /\ last' = Scored("scored", widget_value, raw)
                    ELSE /\ result_visible' = TRUE
                         /\ pdf_visible' = FALSE
                         /\ error_visible' = TRUE
                         /\ last' = Scored("report_failed", widget_value, raw)
            ELSE /\ result_visible' = FALSE
                 /\ pdf_visible' = FALSE
                 /\ error_visible' = TRUE
                 /\ last' = Scored("scoring_failed", widget_value, raw)

\* gui.py:523-579: the end is reached, score and build the report
GoNextTerminal(u) ==
    /\ scoring_calls < MaxScoringCalls
    /\ ApplyDisplay(u)
    /\ scoring_calls' = scoring_calls + 1
    /\ \E raw \in RawResults :
        LET scored == execute_scoring(scoring_language, raw)
        IN  IF scored.ok
            THEN \E pdf_ok \in BOOLEAN :
                    IF pdf_ok
                    THEN /\ result_visible' = TRUE
                         /\ pdf_visible' = TRUE
                         /\ error_visible' = FALSE
                         /\ last' = Scored("scored", widget_value, raw)
                    ELSE /\ result_visible' = FALSE
                         /\ pdf_visible' = FALSE
                         /\ error_visible' = TRUE
                         /\ last' = Scored("report_failed", widget_value, raw)
            ELSE /\ result_visible' = FALSE
                 /\ pdf_visible' = FALSE
                 /\ error_visible' = TRUE
                 /\ last' = Scored("scoring_failed", widget_value, raw)

\* GoNextQuestion that also counts a scoring call
GoNextQuestion_Scoring(u) ==
    /\ ApplyDisplay(u)
    /\ result_visible' = FALSE
    /\ pdf_visible' = FALSE
    /\ error_visible' = FALSE
    /\ last' = Last("go_next", "ok", NoWarning)
    /\ scoring_calls' =
            IF scoring_calls < MaxScoringCalls THEN scoring_calls + 1 ELSE scoring_calls

\* gui.py:580-588: a question is displayed, hide the result components
GoNextQuestion(u) ==
    /\ ApplyDisplay(u)
    /\ result_visible' = FALSE
    /\ pdf_visible' = FALSE
    /\ error_visible' = FALSE
    /\ last' = Last("go_next", "ok", NoWarning)
    /\ UNCHANGED scoring_calls

\* gui.py:496-521: the scan and the projection, both re-raised on error
GoNextNavigate ==
    LET found == find_next_valid_question(current_question_idx, questions,
                                          widget_value, 1)
        u == update_question_display(found.val, questions, widget_value,
                                     row_visible, widget_interactive)
    IN  IF ~found.ok THEN HandlerRaises("go_next", NoWarning)
        ELSE IF ~u.ok THEN HandlerRaises("go_next", NoWarning)
        ELSE IF found.val >= N THEN GoNextTerminal(u)
        ELSE GoNextQuestion(u)

go_next ==
    /\ loaded
    /\ IF current_question_idx >= N
       THEN \* args[current_idx] (gui.py:392) raises IndexError
            HandlerRaises("go_next", NoWarning)
       ELSE LET gate == ValidationGate(current_question_idx, questions, widget_value)
            IN  IF gate # NoWarning THEN GoNextRejected(gate)
                ELSE GoNextNavigate
    /\ UNCHANGED <<cfgVars, loaded, widget_value, retreated, callVars, sideVars>>

(***************************************************************************)
(* go_prev (gui.py:590-627)                                                *)
(***************************************************************************)
\* go_prev behind the validation gate of go_next
go_prev_Gated ==
    /\ loaded
    /\ retreated' = TRUE
    /\ LET found == find_next_valid_question(current_question_idx, questions,
                                             widget_value, -1)
           u == update_question_display(found.val, questions, widget_value,
                                        row_visible, widget_interactive)
           gate == IF current_question_idx < N
                   THEN ValidationGate(current_question_idx, questions, widget_value)
                   ELSE NoWarning
       IN  IF gate # NoWarning
           THEN /\ NoOutputs
                /\ last' = Last("go_prev", "rejected", gate)
                /\ UNCHANGED scoring_calls
           ELSE IF ~found.ok THEN HandlerRaises("go_prev", NoWarning)
           ELSE IF ~u.ok THEN HandlerRaises("go_prev", NoWarning)
           ELSE /\ ApplyDisplay(u)
                /\ last' = Last("go_prev", "ok", NoWarning)
                /\ UNCHANGED <<resultVars, scoring_calls>>
    /\ UNCHANGED <<cfgVars, loaded, widget_value, callVars, sideVars>>

go_prev ==
    /\ loaded
    /\ retreated' = TRUE
    /\ LET found == find_next_valid_question(current_question_idx, questions,
                                             widget_value, -1)
           u == update_question_display(found.val, questions, widget_value,
                                        row_visible, widget_interactive)
       IN  IF ~found.ok THEN HandlerRaises("go_prev", NoWarning)
           ELSE IF ~u.ok THEN HandlerRaises("go_prev", NoWarning)
           ELSE /\ ApplyDisplay(u)
                /\ last' = Last("go_prev", "ok", NoWarning)
                /\ UNCHANGED <<resultVars, scoring_calls>>
    /\ UNCHANGED <<cfgVars, loaded, widget_value, callVars, sideVars>>

(***************************************************************************)
(* A direct call of find_next_valid_question on any context, any index in  *)
(* [0, N] and either direction.                                            *)
(***************************************************************************)
FindCall ==
    /\ ~fn_call.called
    /\ ~progress_call.called
    /\ \E context \in Contexts(questions), current_idx \in 0..N, direction \in {1, -1} :
        fn_call' = [called |-> TRUE, context |-> context,
                    current_idx |-> current_idx, direction |-> direction,
                    result |-> find_next_valid_question(current_idx, questions,
                                                        context, direction)]
    /\ UNCHANGED <<cfgVars, loaded, current_question_idx, widget_value, projVars,
                   resultVars, ghostVars, progress_call, sideVars>>

(***************************************************************************)
(* A direct evaluation of the two progress counts of                       *)
(* update_question_display (gui.py:325-337) on any context and any display *)
(* index in [0, N].                                                        *)
(***************************************************************************)
ProgressCall ==
    /\ ~fn_call.called
    /\ ~progress_call.called
    /\ \E context \in Contexts(questions), display_idx \in 0..N :
        progress_call' =
            IF \E i \in 0..(N - 1) : CountsAsValid(questions[i + 1], context) = "E"
            THEN [called |-> TRUE, context |-> context, display_idx |-> display_idx,
                  ok |-> FALSE, current_valid |-> 0, total_valid |-> 0]
            ELSE [called |-> TRUE, context |-> context, display_idx |-> display_idx,
                  ok |-> TRUE,
                  current_valid |-> CurrentValid(display_idx, questions, context),
                  total_valid |-> TotalValid(questions, context)]
    /\ UNCHANGED <<cfgVars, loaded, current_question_idx, widget_value, projVars,
                   resultVars, ghostVars, fn_call, sideVars>>

(***************************************************************************)
(* The event listeners create_survey_interface attaches (gui.py:685-743):  *)
(* the handler each one runs.  reload_btn runs no Python handler.          *)
(***************************************************************************)
EventListeners ==
    {[event |-> "next_btn.click", fn |-> "go_next"],
     [event |-> "prev_btn.click", fn |-> "go_prev"],
     [event |-> "demo.load", fn |-> "update_question_display"],
     [event |-> "reload_btn.click", fn |-> "none"]}

Next == load \/ Edit \/ Reload \/ go_next \/ go_prev

Spec == Init /\ [][Next]_vars

NextFind == FindCall \/ ProgressCall

SpecFind == Init /\ [][NextFind]_vars

(***************************************************************************)
(* pdf.py: generate_pdf_report and append_to_csv_log, run by the terminal  *)
(* advance of each of several sessions at the same time.  A row of the CSV *)
(* log is the session it belongs to; 0 is a row of an earlier run.  File   *)
(* names built from the timestamp and a random suffix (archives, fallback  *)
(* files, reports) are taken to be distinct.  Every write to disk can fail.*)
(***************************************************************************)
Range(rows) == {rows[k] : k \in 1..Len(rows)}

\* the CSV logs an earlier run can have left
EarlierRows == {[k \in 1..n |-> 0] : n \in 0..RotateRows}

InitLog ==
    /\ questions = <<QText(0)>>
    /\ scoring_language = "python"
    /\ Constructed
    /\ fn_call = NoCall
    /\ progress_call = NoProgressCall
    /\ save_user_data \in BOOLEAN
    /\ main_csv \in EarlierRows
    /\ files = [NoFiles EXCEPT !.data_dir = (main_csv # << >>)]
    /\ NoReport
    /\ peer = NoPeer
    /\ yaml_call = NoYamlCall

\* pdf.py:476-500: the directories are made only when user data is saved
ReportBegin(s) ==
    /\ pc[s] = "idle"
    /\ IF save_user_data
       THEN /\ files' = [files EXCEPT !.data_dir = TRUE]
            /\ pc' = [pc EXCEPT ![s] = "json"]
       ELSE /\ UNCHANGED files
            /\ pc' = [pc EXCEPT ![s] = "pdf"]
    /\ UNCHANGED <<guiVars, save_user_data, lock_holder, waited, existing_rows,
                   main_csv, temp_csv, append_result, report, peer, yaml_call>>

\* pdf.py:590-640: the JSON data file, then the call of append_to_csv_log;
\* a failed write leaves through the handler of pdf.py:873-879
ReportSaveJson(s) ==
    /\ pc[s] = "json"
    /\ \E ok \in BOOLEAN :
        IF ok
        THEN /\ files' = [files EXCEPT !.json = @ \cup {s}]
             /\ append_result' = [append_result EXCEPT ![s] = "pending"]
             /\ pc' = [pc EXCEPT ![s] = "lock"]
             /\ UNCHANGED report
        ELSE /\ report' = [report EXCEPT ![s] = "error"]
             /\ pc' = [pc EXCEPT ![s] = "done"]
             /\ UNCHANGED <<files, append_result>>
    /\ UNCHANGED <<guiVars, save_user_data, lock_holder, waited, existing_rows,
                   main_csv, temp_csv, peer, yaml_call>>

\* AppendAcquire that enters whoever holds the lock
AppendAcquire_NoExclusion(s) ==
    /\ pc[s] = "lock"
    /\ lock_holder' = lock_holder \cup {s}
    /\ pc' = [pc EXCEPT ![s] = "read"]
    /\ UNCHANGED <<guiVars, save_user_data, waited, existing_rows, main_csv,
                   temp_csv, files, append_result, report, peer, yaml_call>>

\* pdf.py:136, 142: "with lock" is entered when no one holds the lock file
AppendAcquire(s) ==
    /\ pc[s] = "lock"
    /\ lock_holder = {}
    /\ lock_holder' = {s}
    /\ pc' = [pc EXCEPT ![s] = "read"]
    /\ UNCHANGED <<guiVars, save_user_data, waited, existing_rows, main_csv,
                   temp_csv, files, append_result, report, peer, yaml_call>>

\* a second passes while the lock is held and some session waits for it
Tick ==
    /\ lock_holder # {}
    /\ \E s \in Sessions : pc[s] = "lock"
    /\ \A s \in Sessions : pc[s] = "lock" => waited[s] < LockWait
    /\ waited' = [s \in Sessions |-> IF pc[s] = "lock" THEN waited[s] + 1
                                     ELSE waited[s]]
    /\ UNCHANGED <<guiVars, save_user_data, lock_holder, pc, existing_rows,
                   main_csv, temp_csv, files, append_result, report, peer,
                   yaml_call>>

\* AppendTimeout that writes no fallback file
AppendTimeout_NoFallback(s) ==
    /\ pc[s] = "lock"
    /\ waited[s] = LockWait
    /\ lock_holder # {}
    /\ append_result' = [append_result EXCEPT ![s] = "fallback"]
    /\ pc' = [pc EXCEPT ![s] = "pdf"]
    /\ UNCHANGED <<guiVars, save_user_data, lock_holder, waited, existing_rows,
                   main_csv, temp_csv, files, report, peer, yaml_call>>

\* pdf.py:306-403: Timeout after LockWait seconds, the row goes to a fallback
\* file of its own; a failed write is raised again
AppendTimeout(s) ==
    /\ pc[s] = "lock"
    /\ waited[s] = LockWait
    /\ lock_holder # {}
    /\ \E ok \in BOOLEAN :
        IF ok
        THEN /\ files' = [files EXCEPT !.fallback = @ \cup {s}]
             /\ append_result' = [append_result EXCEPT ![s] = "fallback"]
        ELSE /\ UNCHANGED files
             /\ append_result' = [append_result EXCEPT ![s] = "raised"]
    /\ pc' = [pc EXCEPT ![s] = "pdf"]
    /\ UNCHANGED <<guiVars, save_user_data, lock_holder, waited, existing_rows,
                   main_csv, temp_csv, report, peer, yaml_call>>

\* AppendRead that reads nothing and starts the log anew
AppendRead_NoRead(s) ==
    /\ pc[s] = "read"
    /\ existing_rows' = [existing_rows EXCEPT ![s] = << >>]
    /\ pc' = [pc EXCEPT ![s] = "write"]
    /\ UNCHANGED <<guiVars, save_user_data, lock_holder, waited, main_csv,
                   temp_csv, files, append_result, report, peer, yaml_call>>

\* pdf.py:169-173, the row_number of the row the call of session s builds
row_number(s) == Len(existing_rows[s]) + 1

\* pdf.py:144-174: read the rows; a log of RotateRows rows is moved to an archive
AppendRead(s) ==
    /\ pc[s] = "read"
    /\ IF Len(main_csv) >= RotateRows
       THEN /\ files' = [files EXCEPT !.archived = @ \cup Range(main_csv)]
            /\ main_csv' = << >>
            /\ existing_rows' = [existing_rows EXCEPT ![s] = << >>]
       ELSE /\ existing_rows' = [existing_rows EXCEPT ![s] = main_csv]
            /\ UNCHANGED <<files, main_csv>>
    /\ pc' = [pc EXCEPT ![s] = "write"]
    /\ UNCHANGED <<guiVars, save_user_data, lock_holder, waited, temp_csv,
                   append_result, report, peer, yaml_call>>

\* pdf.py:273-298: the rows read and the new row go to the temporary file; a
\* failed write leaves with the rows it wrote in the file, or with no file.
\* The exception leaves "with lock" (pdf.py:142), which releases the lock,
\* before the handler of pdf.py:405 runs.
AppendWriteTemp(s) ==
    /\ pc[s] = "write"
    /\ \E ok \in BOOLEAN :
        IF ok
        THEN /\ temp_csv' = Append(existing_rows[s], s)
             /\ pc' = [pc EXCEPT ![s] = "replace"]
             /\ UNCHANGED lock_holder
        ELSE /\ temp_csv' \in {<< >>, existing_rows[s]}
             /\ lock_holder' = lock_holder \ {s}
             /\ pc' = [pc EXCEPT ![s] = "cleanup"]
    /\ UNCHANGED <<guiVars, save_user_data, waited, existing_rows, main_csv,
                   files, append_result, report, peer, yaml_call>>

\* pdf.py:300-304: the temporary file replaces the log, "with lock" is left;
\* replace() of a file that is not there raises FileNotFoundError
AppendReplace(s) ==
    /\ pc[s] = "replace"
    /\ IF temp_csv # << >>
       THEN /\ main_csv' = temp_csv
            /\ temp_csv' = << >>
            /\ append_result' = [append_result EXCEPT ![s] = "appended"]
            /\ pc' = [pc EXCEPT ![s] = "pdf"]
       ELSE /\ pc' = [pc EXCEPT ![s] = "cleanup"]
            /\ UNCHANGED <<main_csv, temp_csv, append_result>>
    /\ lock_holder' = lock_holder \ {s}
    /\ UNCHANGED <<guiVars, save_user_data, waited, existing_rows, files,
                   report, peer, yaml_call>>

\* pdf.py:405-413: the handler of a failed call, outside "with lock": the
\* temporary file, whoever wrote it, is removed if it is there (a failure
\* of unlink is passed over), and the exception is raised again
AppendCleanup(s) ==
    /\ pc[s] = "cleanup"
    /\ temp_csv' \in {<< >>, temp_csv}
    /\ append_result' = [append_result EXCEPT ![s] = "raised"]
    /\ pc' = [pc EXCEPT ![s] = "pdf"]
    /\ UNCHANGED <<guiVars, save_user_data, lock_holder, waited, existing_rows,
                   main_csv, files, report, peer, yaml_call>>

\* ReportBuildPdf that always writes under survey_data
ReportBuildPdf_AlwaysSaved(s) ==
    /\ pc[s] = "pdf"
    /\ \E ok \in BOOLEAN :
        IF ok
        THEN /\ files' = [files EXCEPT !.pdf_saved = @ \cup {s}, !.data_dir = TRUE]
             /\ report' = [report EXCEPT ![s] = "pdf"]
        ELSE /\ UNCHANGED files
             /\ report' = [report EXCEPT ![s] = "error"]
    /\ pc' = [pc EXCEPT ![s] = "done"]
    /\ UNCHANGED <<guiVars, save_user_data, lock_holder, waited, existing_rows,
                   main_csv, temp_csv, append_result, peer, yaml_call>>

\* pdf.py:635-640: generate_pdf_report logs an exception of append_to_csv_log
\* and goes on; pdf.py:646-879: the report is written under survey_data when
\* user data is saved and under temp_pdfs otherwise, and its path returned;
\* a failure is raised to go_next as RuntimeError
ReportBuildPdf(s) ==
    /\ pc[s] = "pdf"
    /\ \E ok \in BOOLEAN :
        IF ok
        THEN /\ files' = IF save_user_data
                         THEN [files EXCEPT !.pdf_saved = @ \cup {s}]
                         ELSE [files EXCEPT !.pdf_temp = @ \cup {s},
                                            !.temp_dir = TRUE]
             /\ report' = [report EXCEPT ![s] = "pdf"]
        ELSE /\ files' = IF save_user_data THEN files
                         ELSE [files EXCEPT !.temp_dir = TRUE]
             /\ report' = [report EXCEPT ![s] = "error"]
    /\ pc' = [pc EXCEPT ![s] = "done"]
    /\ UNCHANGED <<guiVars, save_user_data, lock_holder, waited, existing_rows,
                   main_csv, temp_csv, append_result, peer, yaml_call>>

NextLog ==
    \/ \E s \in Sessions : ReportBegin(s)
    \/ \E s \in Sessions : ReportSaveJson(s)
    \/ \E s \in Sessions : AppendAcquire(s)
    \/ Tick
    \/ \E s \in Sessions : AppendTimeout(s)
    \/ \E s \in Sessions : AppendRead(s)
    \/ \E s \in Sessions : AppendWriteTemp(s)
    \/ \E s \in Sessions : AppendReplace(s)
    \/ \E s \in Sessions : AppendCleanup(s)
    \/ \E s \in Sessions : ReportBuildPdf(s)

SpecLog == InitLog /\ [][NextLog]_vars

(***************************************************************************)
(* io.py load_yaml: the validation of the questions' order values, as      *)
(* create_survey_interface calls it before it builds anything              *)
(* (gui.py:128-129).  An order value is what the YAML file gives: nothing  *)
(* (no order key, or an empty one), an integer, or a float between two     *)
(* integers.                                                               *)
(***************************************************************************)
\* the float k/2, for an odd k
PyHalf(k) == [t |-> "float", s |-> << >>, n |-> k]

\* twice the number a value stands for
Twice(v) == IF v.t = "float" THEN v.n ELSE 2 * v.n

OrderValues ==
    {PyNone} \cup {PyInt(k) : k \in 0..(MaxN + 1)}
             \cup {PyHalf(2 * k + 1) : k \in 1..(MaxN - 1)}

\* [q.get("order") for q in questions] of every file of up to MaxN questions
OrderLists == UNION {[1..n -> OrderValues] : n \in 0..MaxN}

\* io.py:24-51: TRUE when the configuration is returned, FALSE when ValueError
\* is raised (and raised again at 56-58)
load_yaml(orders) ==
    IF Len(orders) = 0 THEN TRUE
    ELSE IF \E k \in 1..Len(orders) : orders[k] = PyNone THEN FALSE
    ELSE IF \E j, k \in 1..Len(orders) : j # k /\ Twice(orders[j]) = Twice(orders[k])
         THEN FALSE
    ELSE IF \E k \in 1..Len(orders) : Twice(orders[k]) < 2 THEN FALSE
    ELSE IF \A k \in 1..Len(orders) : Twice(orders[k]) # 2 THEN FALSE
    ELSE IF \E k \in 1..Len(orders) : Twice(orders[k]) > 2 * Len(orders) THEN FALSE
    ELSE IF \A k \in 1..Len(orders) : Twice(orders[k]) # 2 * Len(orders) THEN FALSE
    ELSE TRUE

InitYaml ==
    /\ questions = <<QText(0)>>
    /\ scoring_language = "python"
    /\ Constructed
    /\ fn_call = NoCall
    /\ progress_call = NoProgressCall
    /\ save_user_data = FALSE
    /\ main_csv = << >>
    /\ files = NoFiles
    /\ NoReport
    /\ peer = NoPeer
    /\ yaml_call \in {[NoYamlCall EXCEPT !.orders = o] : o \in OrderLists}

\* gui.py:128: config = load_yaml(yaml_path); when it raises,
\* create_survey_interface ends there and no interface exists
LoadYamlCall ==
    /\ ~yaml_call.called
    /\ yaml_call' = [yaml_call EXCEPT !.called = TRUE,
                                      !.accepted = load_yaml(yaml_call.orders)]
    /\ UNCHANGED <<guiVars, logVars, peer>>

SpecYaml == InitYaml /\ [][LoadYamlCall]_vars

(***************************************************************************)
(* Two sessions of one interface.  The handlers are closures of            *)
(* create_survey_interface over questions and the scoring code; all they   *)
(* read of a session comes in as inputs (the gr.State and the widget       *)
(* values of the session that sent the event, gui.py:685-739) and all they *)
(* change goes out as the updates of that session's components.  The       *)
(* variables of the interface hold the session whose event is being        *)
(* handled, peer holds the other one, and Switch passes from one to the    *)
(* other.                                                                  *)
(***************************************************************************)
SessionState ==
    [open |-> TRUE,
     loaded |-> loaded,
     current_question_idx |-> current_question_idx,
     widget_value |-> widget_value,
     row_visible |-> row_visible,
     widget_interactive |-> widget_interactive,
     prev_visible |-> prev_visible,
     next_visible |-> next_visible,
     next_label |-> next_label,
     result_visible |-> result_visible,
     pdf_visible |-> pdf_visible,
     error_visible |-> error_visible,
     last |-> last,
     scoring_calls |-> scoring_calls,
     retreated |-> retreated,
     shown_at |-> shown_at]

\* the questionnaire two sessions are run on: a free-text question followed
\* by one that is skipped unless the first is answered 'yes'
SessionQuestionLists == {<<QText(0), QCheck(1)>>}

InitSessions ==
    /\ questions \in SessionQuestionLists
    /\ scoring_language = "python"
    /\ Constructed
    /\ fn_call = NoCall
    /\ progress_call = NoProgressCall
    /\ save_user_data = FALSE
    /\ main_csv = << >>
    /\ files = NoFiles
    /\ NoReport
    /\ peer = SessionState
    /\ yaml_call = NoYamlCall

\* Switch with current_question_idx kept in one place for both sessions
Switch_SharedIndex ==
    /\ peer.open
    /\ peer' = SessionState
    /\ loaded' = peer.loaded
    /\ widget_value' = peer.widget_value
    /\ row_visible' = peer.row_visible
    /\ widget_interactive' = peer.widget_interactive
    /\ prev_visible' = peer.prev_visible
    /\ next_visible' = peer.next_visible
    /\ next_label' = peer.next_label
    /\ result_visible' = peer.result_visible
    /\ pdf_visible' = peer.pdf_visible
    /\ error_visible' = peer.error_visible
    /\ last' = peer.last
    /\ scoring_calls' = peer.scoring_calls
    /\ retreated' = peer.retreated
    /\ shown_at' = peer.shown_at
    /\ UNCHANGED <<cfgVars, current_question_idx, callVars, logVars, yaml_call>>

\* the next event comes from the other session: its gr.State
\* (gui.py:177-178) and its components' values are the handler's inputs
Switch ==
    /\ peer.open
    /\ peer' = SessionState
    /\ loaded' = peer.loaded
    /\ current_question_idx' = peer.current_question_idx
    /\ widget_value' = peer.widget_value
    /\ row_visible' = peer.row_visible
    /\ widget_interactive' = peer.widget_interactive
    /\ prev_visible' = peer.prev_visible
    /\ next_visible' = peer.next_visible
    /\ next_label' = peer.next_label
    /\ result_visible' = peer.result_visible
    /\ pdf_visible' = peer.pdf_visible
    /\ error_visible' = peer.error_visible
    /\ last' = peer.last
    /\ scoring_calls' = peer.scoring_calls
    /\ retreated' = peer.retreated
    /\ shown_at' = peer.shown_at
    /\ UNCHANGED <<cfgVars, callVars, logVars, yaml_call>>

NextSessions == load \/ Edit \/ Reload \/ go_next \/ go_prev \/ Switch

SpecSessions == InitSessions /\ [][NextSessions]_vars

(***************************************************************************)
(* The interface on questionnaires whose skip_if names the question's own  *)
(* variable: a skip_if is any expression over the variable names, and the  *)
(* context holds every variable from the start (gui.py:251-258).           *)
(***************************************************************************)
\* free text, skip_if "<own> == 'yes'"
QTextSkipSelf(i) ==
    Question("Textbox", Cond("eq", i, StrYes), KeyAbsent, FALSE, FALSE)

SelfSkipQuestionLists ==
    {<<QTextSkipSelf(0), QTextSkipSelf(1)>>,
     <<QTextSkipSelf(0), QText(1)>>,
     <<QText(0), QTextSkipSelf(1)>>}

InitSelfSkip ==
    /\ questions \in SelfSkipQuestionLists
    /\ scoring_language \in ScoringLanguages
    /\ Constructed
    /\ fn_call = NoCall
    /\ progress_call = NoProgressCall
    /\ save_user_data = FALSE
    /\ main_csv = << >>
    /\ files = NoFiles
    /\ NoReport
    /\ peer = NoPeer
    /\ yaml_call = NoYamlCall

SpecSelfSkip == InitSelfSkip /\ [][Next]_vars




(***************************************************************************)
(* Properties of find_next_valid_question (specification SpecFind).        *)
(***************************************************************************)
\* question i is skipped under context: its skip_if evaluates true
SkipTrue(i, qs, context) ==
    /\ qs[i + 1].skip_if.op # "absent"
    /\ evaluate_skip_if(qs[i + 1].skip_if, context) = "T"

\* question i is eligible under context: no skip_if key, or skip_if is false
EligibleAt(i, qs, context) ==
    \/ qs[i + 1].skip_if.op = "absent"
    \/ evaluate_skip_if(qs[i + 1].skip_if, context) = "F"

\* the call returned an index of a question
ReturnedInRange ==
    /\ fn_call.called
    /\ fn_call.result.ok
    /\ fn_call.result.val \in 0..(N - 1)

\* the call was a backward scan that found every question before its start
\* skipped and returned the clamp index 0
BackwardClamp ==
    /\ fn_call.direction = -1
    /\ fn_call.result.val = 0
    /\ \A i \in 0..(fn_call.current_idx - 1) : SkipTrue(i, questions, fn_call.context)

\* the indices strictly between the start and the returned index
Between(c, r) == {i \in 0..(N - 1) : (c < i /\ i < r) \/ (r < i /\ i < c)}

WhitespaceOnly(v) == v.t = "str" /\ \A k \in 1..Len(v.s) : v.s[k] = " "

\* the question go_next is asked to leave, its submitted value and the index
\* the forward scan computes
CurrentQuestion == questions[current_question_idx + 1]
CurrentValue == widget_value[current_question_idx + 1]
ForwardScan == find_next_valid_question(current_question_idx, questions, widget_value, 1)
BackwardScan == find_next_valid_question(current_question_idx, questions, widget_value, -1)

\* the required-answer check lets the submitted value through
PassesRequiredAnswer ==
    CurrentQuestion.has_default \/ ~(CurrentValue = PyNone \/ WhitespaceOnly(CurrentValue))

\* this step called execute_scoring with the submitted values
ScoringCalled ==
    /\ scoring_calls' = scoring_calls + 1
    /\ last'.inputs = widget_value
    /\ last'.outcome \in {"scored", "scoring_failed", "report_failed"}

\* this step is a handler call that did not call execute_scoring
NoScoringCalled ==
    /\ scoring_calls' = scoring_calls
    /\ last'.inputs = << >>

\* C4: after load and any sequence of go_next and go_prev requests the stored
\* current_question_idx is in [0, N].
C4_IndexInRange == current_question_idx \in 0..N

\* C4 witness: an advance stored the terminal index N
C4_Witness ==
    /\ last.op = "go_next"
    /\ last.outcome = "scored"
    /\ current_question_idx = N

\* C5 as stated: go_next at index c whose question declares no default and whose
\* submitted value is None or a whitespace-only string is rejected: the index
\* stays c, execute_scoring is not called and the warning names question c;
\* the values False and 0 are not taken for unanswered.
C5_EmptyAnswerRejected ==
    [][(go_next /\ current_question_idx < N) =>
        /\ (/\ ~CurrentQuestion.has_default
            /\ (CurrentValue = PyNone \/ WhitespaceOnly(CurrentValue)))
              => /\ current_question_idx' = current_question_idx
                 /\ NoScoringCalled
                 /\ last'.outcome \in {"rejected", "raised"}
                 /\ last'.warning = Warning("unanswered", current_question_idx)
        /\ (CurrentValue \in {PyBool(FALSE), PyInt(0)})
              => last'.warning.kind # "unanswered"]_vars

\* C5 witness: an advance was rejected for a whitespace-only answer
C5_Witness ==
    /\ current_question_idx < N
    /\ last = Last("go_next", "rejected", Warning("unanswered", current_question_idx))
    /\ ~CurrentQuestion.has_default
    /\ CurrentValue = StrBlank

\* C6 as stated: go_next at index c whose question has a valid_if that
\* evaluates false under the submitted context is rejected: the index stays c,
\* the warning is the question's invalid_message when it has one and the
\* generic not-valid message otherwise, and execute_scoring is not called.
C6_InvalidAnswerRejected ==
    [][(/\ go_next
        /\ current_question_idx < N
        /\ CurrentQuestion.valid_if.op # "absent"
        /\ evaluate_valid_if(CurrentQuestion.valid_if, widget_value) = "F")
          => /\ current_question_idx' = current_question_idx
             /\ NoScoringCalled
             /\ last'.outcome \in {"rejected", "raised"}
             /\ last'.warning =
                    IF CurrentQuestion.has_invalid_message
                    THEN Warning("invalid_message", current_question_idx)
                    ELSE Warning("generic_invalid", current_question_idx)]_vars

\* C6 for an answered question: the same, for a submitted value that passes the
\* required-answer check (the question declares a default, or the value is
\* neither None nor a whitespace-only string), which is the case in which
\* go_next looks at valid_if at all.
C6_InvalidAnsweredRejected ==
    [][(/\ go_next
        /\ current_question_idx < N
        /\ PassesRequiredAnswer
        /\ CurrentQuestion.valid_if.op # "absent"
        /\ evaluate_valid_if(CurrentQuestion.valid_if, widget_value) = "F")
          => /\ current_question_idx' = current_question_idx
             /\ NoScoringCalled
             /\ last'.outcome \in {"rejected", "raised"}
             /\ last'.warning =
                    IF CurrentQuestion.has_invalid_message
                    THEN Warning("invalid_message", current_question_idx)
                    ELSE Warning("generic_invalid", current_question_idx)]_vars

\* C6 witness: an age below 18 was rejected with the question's invalid_message
C6_Witness ==
    /\ current_question_idx < N
    /\ last = Last("go_next", "rejected",
                   Warning("invalid_message", current_question_idx))
    /\ CurrentQuestion.has_invalid_message
    /\ CurrentValue = PyInt(0)

LastEligible ==
    CHOOSE j \in 0..(N - 1) :
        /\ EligibleAt(j, questions, widget_value)
        /\ \A i \in (j + 1)..(N - 1) : ~EligibleAt(i, questions, widget_value)

\* no skip_if of the list raises under the submitted context
NoSkipIfRaises ==
    \A i \in 0..(N - 1) :
        \/ questions[i + 1].skip_if.op = "absent"
        \/ evaluate_skip_if(questions[i + 1].skip_if, widget_value) # "E"

\* C8: go_prev from the terminal index N, when the last question is skipped
\* under the context and some question is eligible, lands on the last eligible
\* question.
C8_RetreatFromTerminal ==
    [][(/\ go_prev
        /\ current_question_idx = N
        /\ SkipTrue(N - 1, questions, widget_value)
        /\ NoSkipIfRaises
        /\ \E j \in 0..(N - 1) : EligibleAt(j, questions, widget_value))
          => /\ last'.outcome = "ok"
             /\ current_question_idx' = LastEligible
             /\ current_question_idx' < N - 1]_vars

\* C8 witness: a retreat landed before two trailing skipped questions
C8_Witness ==
    /\ last.op = "go_prev"
    /\ last.outcome = "ok"
    /\ last.from = N
    /\ current_question_idx = N - 3
    /\ SkipTrue(N - 1, questions, widget_value)
    /\ SkipTrue(N - 2, questions, widget_value)

\* a page reload starts a new session
IsReload == loaded /\ ~loaded'

\* C9: execute_scoring is called only by a go_next whose forward scan returns
\* an index >= N, with every question's submitted value as input, and by no
\* load, go_prev, rejected go_next or go_next that lands on a question; a
\* session that only advanced has called it once when it is at the terminal
\* index after an advance, and never more than once.
C9_ScoringOnlyAtTerminalAdvance ==
    [][/\ (load \/ go_prev) => NoScoringCalled
       /\ go_next =>
            IF /\ current_question_idx < N
               /\ ValidationGate(current_question_idx, questions, widget_value)
                    = NoWarning
               /\ ForwardScan.ok
               /\ ForwardScan.val >= N
               /\ last'.outcome # "raised"
            THEN ScoringCalled /\ Len(last'.inputs) = N
            ELSE NoScoringCalled
       /\ (scoring_calls' # scoring_calls) => (go_next \/ IsReload)
       /\ ~retreated' =>
            /\ scoring_calls' <= 1
            /\ (last'.outcome \in {"scored", "scoring_failed", "report_failed"}
                    => scoring_calls' = 1 /\ current_question_idx' = N)]_vars

\* C9 witness: three questions without skip_if were advanced through to the
\* terminal index and scored once on the three answers
C9_Witness ==
    /\ N = 3
    /\ \A k \in 1..N : questions[k].skip_if.op = "absent"
    /\ ~retreated
    /\ current_question_idx = N
    /\ scoring_calls = 1
    /\ last.outcome = "scored"
    /\ last.inputs = widget_value

\* C10: when the scoring call of the terminal advance fails, as it does under
\* execute_scoring_python for a table with rows of unequal length, the session
\* is at index N with the error shown and the result panel and the report
\* download hidden.
C10_ScoringFailureAtTerminal ==
    /\ (last.outcome = "scoring_failed") =>
            /\ current_question_idx = N
            /\ error_visible
            /\ ~result_visible
            /\ ~pdf_visible
    /\ (/\ scoring_language = "python"
        /\ last.raw.kind = "tuple3"
        /\ \E i \in 1..Len(last.raw.table) : last.raw.table[i] # last.raw.table[1])
            => last.outcome = "scoring_failed"

\* C10 witness: a python scoring function returned a table whose second row is
\* shorter than the header
C10_Witness ==
    /\ scoring_language = "python"
    /\ last.raw = Raw("tuple3", <<2, 1>>)
    /\ last.outcome = "scoring_failed"
    /\ current_question_idx = N

\* C11: when execute_scoring succeeds and generate_pdf_report raises at the
\* terminal advance, the advance still stores index N with its projection (both
\* navigation buttons hidden), the error is shown, and the result panel and the
\* report download are hidden.
C11_ReportFailureAtTerminal ==
    (last.outcome = "report_failed") =>
        /\ execute_scoring(scoring_language, last.raw).ok
        /\ current_question_idx = N
        /\ ~prev_visible
        /\ ~next_visible
        /\ error_visible
        /\ ~result_visible
        /\ ~pdf_visible

\* C11 witness: the terminal advance scored a valid three-part result and the
\* report generation failed
C11_Witness ==
    /\ last.op = "go_next"
    /\ last.outcome = "report_failed"
    /\ last.raw.kind = "tuple3"
    /\ scoring_calls = 1
    /\ current_question_idx = N
    /\ error_visible

\* a go_next requested in this state would reach the terminal branch and call
\* execute_scoring on the present answers (gui.py:392-536)
GoNextWouldScore ==
    /\ loaded
    /\ current_question_idx < N
    /\ ValidationGate(current_question_idx, questions, widget_value) = NoWarning
    /\ ForwardScan.ok
    /\ ForwardScan.val >= N
    /\ update_question_display(ForwardScan.val, questions, widget_value,
                               row_visible, widget_interactive).ok

\* some handler the page can run calls execute_scoring on the present answers:
\* compute_score if an event is bound to it, or go_next behind a shown Next
\* button
RecomputeAvailable ==
    \/ \E l \in EventListeners : l.fn = "compute_score"
    \/ (next_visible /\ GoNextWouldScore)

\* C12 as stated: after a scoring or report failure at the terminal advance the
\* session is at index N and an action that runs scoring again on the same
\* answers is available to the respondent.
C12_RecomputeAvailableAfterFailure ==
    (last.outcome \in {"scoring_failed", "report_failed"}) =>
        /\ current_question_idx = N
        /\ RecomputeAvailable

\* C12 case: the terminal advance failed and the page shows the error at index N
\* with both navigation buttons hidden
C12_Witness ==
    /\ last.outcome \in {"scoring_failed", "report_failed"}
    /\ current_question_idx = N
    /\ error_visible
    /\ ~next_visible
    /\ ~prev_visible

\* this step is a handler call that returned the updates of
\* update_question_display
ProjectionReturned ==
    /\ load \/ go_next \/ go_prev
    /\ last'.outcome # "raised"

\* the skip_if of question i, if any, evaluates false under context
SkipFalse(i, qs, context) ==
    \/ SkipFalsy(qs[i + 1])
    \/ evaluate_skip_if(qs[i + 1].skip_if, context) = "F"

\* C13 as stated: in the projection update_question_display returns for the
\* display index d it settles on, every recomputed question i > d is hidden and
\* not interactive, and every recomputed question i <= d is visible iff its own
\* skip_if (if any) evaluates false under the context and interactive iff
\* additionally i = d; for every requested index, one whose own question is
\* skipped included.
C13_ProjectionByDisplayIndex ==
    [][ProjectionReturned =>
        LET d == current_question_idx'
        IN  \A i \in StartIdx(d)..(N - 1) :
                /\ (i > d) => (~row_visible'[i] /\ ~widget_interactive'[i])
                /\ (i <= d) =>
                    /\ row_visible'[i] <=> SkipFalse(i, questions, widget_value)
                    /\ widget_interactive'[i] <=>
                            (SkipFalse(i, questions, widget_value) /\ i = d)]_vars

\* C13 case: load requested index 0 whose question is skipped, the display
\* index is 1 and question 1 is neither shown nor interactive
C13_Witness ==
    /\ N >= 2
    /\ last.op = "load"
    /\ last.outcome = "ok"
    /\ SkipTrue(0, questions, widget_value)
    /\ current_question_idx = 1
    /\ ~row_visible[1]
    /\ ~widget_interactive[1]
    /\ next_visible

\* the index the handler of this step passed to update_question_display
RequestedIdx ==
    CASE last'.op = "go_prev" -> BackwardScan.val
      [] last'.op = "go_next" /\ last'.outcome # "rejected" -> ForwardScan.val
      [] OTHER -> current_question_idx

\* C14 as stated: recomputing rows and widgets only for the window
\* [max(0, display_idx - 1), N) gives what recomputing the full range [0, N)
\* gives: after a handler returned its projection every question's row and
\* widget is as the rule of the row loop computes it, inside the window and
\* before it, so the respondent sees the same page.
C14_NarrowedEqualsFullRange ==
    [][ProjectionReturned =>
        LET d == current_question_idx'
        IN  \A i \in 0..(N - 1) :
                /\ row_visible'[i] =
                        IsVisible(i, RequestedIdx, d, questions, widget_value)
                /\ widget_interactive'[i] =
                        IsInteractive(i, RequestedIdx, d, questions, widget_value)]_vars

\* C14 case: an advance from question 0 jumped over the skipped question 1 to
\* question 2; the window starts at 1 and the answered question 0 is still
\* interactive
C14_Witness ==
    /\ N = 3
    /\ last.op = "go_next"
    /\ last.from = 0
    /\ last.outcome = "ok"
    /\ current_question_idx = 2
    /\ StartIdx(current_question_idx) = 1
    /\ widget_interactive[0]
    /\ widget_interactive[2]

\* the last handler call returned a projection, which the page now shows
ProjectionShown ==
    /\ loaded
    /\ last.op \in {"load", "go_next", "go_prev"}
    /\ last.outcome # "raised"

\* C15 as stated: after load and any sequence of go_next and go_prev requests
\* at most one question widget is interactive, every question before the
\* current one is read-only, and when current_question_idx < N the question at
\* current_question_idx is the interactive and visible one; advances that jump
\* over skipped questions included.
C15_OnlyCurrentInteractive ==
    ProjectionShown =>
        /\ Cardinality({i \in 0..(N - 1) : widget_interactive[i]}) <= 1
        /\ \A i \in 0..(N - 1) :
                (i < current_question_idx) => ~widget_interactive[i]
        /\ (current_question_idx < N) =>
                /\ widget_interactive[current_question_idx]
                /\ row_visible[current_question_idx]

\* C15 case: after an advance that jumped from question 0 over the skipped
\* question 1, the shown questions 0 and 2 are both interactive
C15_Witness ==
    /\ N = 3
    /\ ProjectionShown
    /\ last.op = "go_next"
    /\ last.from = 0
    /\ current_question_idx = 2
    /\ SkipTrue(1, questions, widget_value)
    /\ row_visible[0] /\ widget_interactive[0]
    /\ row_visible[2] /\ widget_interactive[2]

\* question i was shown by a projection at a display index smaller than d
ShownBefore(i, d) == shown_at[i] < d

\* C16 as stated: a question that has become visible at some display index is
\* visible at every larger display index a later projection settles on, provided
\* its own skip_if evaluates false under the context of that projection; and
\* it is visible there only if its skip_if is false under that context.
C16_CumulativeDisplay ==
    [][ProjectionReturned =>
        \A i \in 0..(N - 1) :
            ShownBefore(i, current_question_idx') =>
                (row_visible'[i] <=> SkipFalse(i, questions, widget_value))]_vars

\* C16 case: question 1, shown when it was the current question, is hidden at
\* the terminal display index although its skip_if is false under the submitted
\* context; question 0 is not skipped
C16_Witness ==
    /\ N = 3
    /\ ProjectionShown
    /\ last.op = "go_next"
    /\ current_question_idx = N
    /\ last.inputs = widget_value
    /\ ~SkipTrue(0, questions, widget_value)
    /\ shown_at[1] = 1
    /\ SkipFalse(1, questions, widget_value)
    /\ ~row_visible[1]

(***************************************************************************)
(* Properties of the progress counts (specification SpecFind).             *)
(***************************************************************************)
\* C17: for every question list, context and display index d in [0, N] for
\* which the counts are computed, current_valid at d is at most current_valid
\* at every display index from d on under the same context, and at most
\* total_valid; both counts are the numbers of eligible questions, in
\* [0, min(d, N - 1)] and in [0, N).
C17_ProgressAccounting ==
    (progress_call.called /\ progress_call.ok) =>
        /\ progress_call.current_valid <= progress_call.total_valid
        /\ \A d \in progress_call.display_idx..N :
                progress_call.current_valid
                    <= CurrentValid(d, questions, progress_call.context)
        /\ progress_call.current_valid =
                Cardinality({i \in 0..(N - 1) :
                                /\ i <= progress_call.display_idx
                                /\ EligibleAt(i, questions, progress_call.context)})
        /\ progress_call.total_valid =
                Cardinality({i \in 0..(N - 1) :
                                EligibleAt(i, questions, progress_call.context)})

\* C17 witness: the counts at display index 1 of three questions whose second
\* is skipped: 1 of 2
C17_Witness ==
    /\ N = 3
    /\ progress_call.called
    /\ progress_call.ok
    /\ progress_call.display_idx = 1
    /\ SkipTrue(1, questions, progress_call.context)
    /\ progress_call.current_valid = 1
    /\ progress_call.total_valid = 2

\* the questions and context of scenario B: three questions, the second with
\* skip_if "q1 == 'no'", the first and third without skip_if, q1 = 'no'
ScenarioB ==
    /\ N = 3
    /\ questions[1].skip_if = KeyAbsent
    /\ questions[2].skip_if = Cond("eq", 0, StrNo)
    /\ questions[3].skip_if = KeyAbsent
    /\ widget_value[1] = StrNo

\* C18 as stated: in scenario B go_next from index 0 lands on index 2 and the
\* Next button then shows progress 1 / 2.
C18_ScenarioBProgress ==
    [][(go_next /\ ScenarioB /\ current_question_idx = 0) =>
        /\ last'.outcome = "ok"
        /\ current_question_idx' = 2
        /\ next_label' = Label("fraction", 1, 2)]_vars

\* C18 amended: in scenario B go_next from index 0 lands on index 2 and the
\* Next button then shows progress 2 / 2: questions 0 and 2 are the two
\* eligible questions and both lie in [0, display_idx].
C18_ScenarioBProgressAtLanding ==
    [][(go_next /\ ScenarioB /\ current_question_idx = 0) =>
        /\ last'.outcome = "ok"
        /\ current_question_idx' = 2
        /\ row_visible'[2]
        /\ ~row_visible'[1]
        /\ next_label' = Label("fraction", 2, 2)]_vars

\* C18 witness: the advance of scenario B has landed on index 2
C18_Witness ==
    /\ ScenarioB
    /\ last.op = "go_next"
    /\ last.from = 0
    /\ last.outcome = "ok"
    /\ current_question_idx = 2
    /\ next_label = Label("fraction", 2, 2)

\* C19: in every reachable state the Previous button is shown iff
\* 0 < current_question_idx < N and the Next button iff current_question_idx < N;
\* at the terminal index both are hidden.
C19_NavigationControls ==
    /\ prev_visible <=> (0 < current_question_idx /\ current_question_idx < N)
    /\ next_visible <=> (current_question_idx < N)
    /\ (current_question_idx = N) => (~prev_visible /\ ~next_visible)

\* C19 witness: a terminal advance from the last of three questions hid both
\* buttons
C19_Witness ==
    /\ N = 3
    /\ last.op = "go_next"
    /\ last.from = 2
    /\ current_question_idx = N
    /\ ~prev_visible
    /\ ~next_visible

\* the current question is the first eligible one: no question before it is
\* eligible under the current context
CurrentIsFirstEligible ==
    /\ loaded
    /\ current_question_idx < N
    /\ EligibleAt(current_question_idx, questions, widget_value)
    /\ \A i \in 0..(current_question_idx - 1) : ~EligibleAt(i, questions, widget_value)

\* C20 as stated: the Previous button is hidden whenever the current question is
\* the first eligible question under the current context, also when that
\* question is not at index 0 because question 0 is skipped.
C20_PrevHiddenAtFirstEligible ==
    CurrentIsFirstEligible => ~prev_visible

\* C20 amended: the Previous button is hidden at the first eligible question
\* when that question is at index 0; when question 0 is skipped and the first
\* eligible question is at an index d with 0 < d < N, the Previous button is
\* shown there.
C20_PrevHiddenAtIndexZeroOnly ==
    CurrentIsFirstEligible => (prev_visible <=> current_question_idx > 0)

\* C20 witness: question 0 is skipped, the current question is question 1 and
\* the Previous button is shown
C20_Witness ==
    /\ CurrentIsFirstEligible
    /\ ProjectionShown
    /\ SkipTrue(0, questions, widget_value)
    /\ current_question_idx = 1
    /\ prev_visible

\* every widget holds the value it was constructed with
InitialContext ==
    widget_value = [k \in 1..N |-> InitialValue(questions[k].widget)]

\* C21 as stated: load stores index 0 and returns the projection for index 0
\* under the initial context, also when the first question's skip_if is true
\* under that context.
C21_LoadEstablishesIndexZero ==
    [][(load /\ last'.outcome = "ok") =>
        /\ InitialContext
        /\ current_question_idx' = 0
        /\ ~prev_visible'
        /\ next_visible'
        /\ row_visible'[0] <=> SkipFalse(0, questions, widget_value)
        /\ \A i \in 1..(N - 1) : ~row_visible'[i] /\ ~widget_interactive'[i]]_vars

\* C21 amended: load runs under the initial context and, when no skip_if
\* raises, stores the first index from 0 on whose question is not skipped under
\* that context (N when every question is skipped) and changes no widget value;
\* the row of every question after the first is hidden; when the first question
\* is not skipped the stored index is 0, the first question is shown and is the
\* only interactive one, Previous is hidden and Next is shown.
C21_LoadEstablishesFirstUnskipped ==
    [][(load /\ last'.outcome = "ok") =>
        /\ InitialContext
        /\ widget_value' = widget_value
        /\ current_question_idx' \in 0..N
        /\ (current_question_idx' < N)
                => ~SkipTrue(current_question_idx', questions, widget_value)
        /\ \A i \in 0..(current_question_idx' - 1) : SkipTrue(i, questions, widget_value)
        /\ \A i \in 1..(N - 1) : ~row_visible'[i]
        /\ ~SkipTrue(0, questions, widget_value) =>
                /\ current_question_idx' = 0
                /\ row_visible'[0]
                /\ widget_interactive'[0]
                /\ \A i \in 1..(N - 1) : ~widget_interactive'[i]
                /\ ~prev_visible'
                /\ next_visible']_vars

\* C21 witness: load found the first two of three questions skipped under the
\* initial context and stored index 2
C21_Witness ==
    /\ N = 3
    /\ InitialContext
    /\ last.op = "load"
    /\ last.outcome = "ok"
    /\ SkipTrue(0, questions, widget_value)
    /\ SkipTrue(1, questions, widget_value)
    /\ current_question_idx = 2

(***************************************************************************)
(* Properties of predicate evaluation (specification SpecFind).            *)
(***************************************************************************)
\* the skip_if of question i fails to evaluate under context
SkipRaises(i, qs, context) ==
    /\ qs[i + 1].skip_if.op # "absent"
    /\ evaluate_skip_if(qs[i + 1].skip_if, context) = "E"

\* the scan of the call, starting next to c in its direction, reaches question
\* j: every question strictly between c and j is skipped
ScanReaches(j) ==
    /\ fn_call.direction * (j - fn_call.current_idx) >= 1
    /\ \A i \in Between(fn_call.current_idx, j) :
            SkipTrue(i, questions, fn_call.context)

\* C22: evaluate_skip_if and evaluate_valid_if give True or False when the
\* evaluation succeeds and raise otherwise (an ordering comparison of a value
\* that is not a number raises, an equality test never does); and
\* find_next_valid_question raises exactly when its scan reaches a question
\* whose skip_if fails to evaluate: it neither returns that question as
\* eligible nor scans past it.
C22_EvaluationErrorPropagates ==
    fn_call.called =>
        /\ \A i \in 0..(N - 1) :
            LET q == questions[i + 1]
            IN  /\ q.skip_if.op \in {"eq", "ne", "ge"} =>
                    /\ evaluate_skip_if(q.skip_if, fn_call.context) \in {"T", "F", "E"}
                    /\ evaluate_skip_if(q.skip_if, fn_call.context) = "E"
                        <=> (/\ q.skip_if.op = "ge"
                             /\ ~IsNumber(fn_call.context[q.skip_if.var + 1]))
                /\ q.valid_if.op \in {"eq", "ne", "ge"} =>
                    /\ evaluate_valid_if(q.valid_if, fn_call.context) \in {"T", "F", "E"}
                    /\ evaluate_valid_if(q.valid_if, fn_call.context) = "E"
                        <=> (/\ q.valid_if.op = "ge"
                             /\ ~IsNumber(fn_call.context[q.valid_if.var + 1]))
        /\ ~fn_call.result.ok
            <=> \E j \in 0..(N - 1) :
                    ScanReaches(j) /\ SkipRaises(j, questions, fn_call.context)

\* C22 witness: a forward call scanned over a skipped question onto one whose
\* skip_if fails to evaluate, and raised
C22_Witness ==
    /\ fn_call.called
    /\ fn_call.direction = 1
    /\ fn_call.current_idx = 0
    /\ N = 3
    /\ SkipTrue(1, questions, fn_call.context)
    /\ SkipRaises(2, questions, fn_call.context)
    /\ fn_call.result = Raised

(***************************************************************************)
(* Properties of predicate evaluation errors in the handlers               *)
(* (specification Spec).                                                   *)
(***************************************************************************)
\* this step is a go_next or go_prev in which a skip_if or valid_if evaluation
\* failed: the valid_if of the current question, or a skip_if of the scan or of
\* the projection (a go_next at index N raises for another reason, IndexError)
EvaluationFailed ==
    \/ go_next /\ last'.warning.kind = "valid_if_error"
    \/ go_next /\ last'.outcome = "raised" /\ current_question_idx < N
    \/ go_prev /\ last'.outcome = "raised"

\* C23 as stated: when a skip_if or valid_if evaluation fails while go_next or
\* go_prev is handled, current_question_idx is afterwards what it was before
\* and execute_scoring is not called.
C23_EvaluationFailureKeepsIndex ==
    [][EvaluationFailed =>
        /\ current_question_idx' = current_question_idx
        /\ NoScoringCalled]_vars

\* C23 case: the valid_if of the current question 2 failed to evaluate while
\* its skip_if was true under the submitted context, and the rejected advance
\* stored the terminal index
C23_Witness ==
    /\ N = 3
    /\ last.op = "go_next"
    /\ last.from = 2
    /\ last.warning = Warning("valid_if_error", 2)
    /\ SkipTrue(2, questions, widget_value)
    /\ current_question_idx = N
    /\ scoring_calls = 0

\* this step is a load, go_next or go_prev in which a skip_if or valid_if
\* evaluation failed
HandlerEvaluationFailed ==
    \/ load /\ last'.outcome = "raised"
    \/ EvaluationFailed

\* C24 as stated: a predicate evaluation error during load, go_next or go_prev
\* is caught inside the handler and becomes a warning to the respondent; the
\* handler does not end with an exception.
C24_EvaluationErrorsBecomeWarnings ==
    [][HandlerEvaluationFailed =>
        /\ last'.outcome # "raised"
        /\ last'.warning # NoWarning]_vars

\* C24 case: a skip_if of the backward scan failed to evaluate and go_prev
\* ended with the exception, no warning given
C24_Witness ==
    /\ last.op = "go_prev"
    /\ last.outcome = "raised"
    /\ last.warning = NoWarning
    /\ current_question_idx = last.from
    /\ ~BackwardScan.ok

(***************************************************************************)
(* Properties of the scoring boundary (specification Spec).                *)
(***************************************************************************)
\* the scoring call of the last terminal advance returned its result
ScoringReturned == last.outcome \in {"scored", "report_failed"}

\* C25 as stated: under either scoring language, execute_scoring returns only
\* tables that have a header row and whose rows all have the header's length;
\* an empty or non-rectangular table is rejected with an error.
C25_TableContractEnforced ==
    /\ ScoringReturned => Rectangular(last.raw.table)
    /\ (last.raw.kind = "tuple3" /\ ~Rectangular(last.raw.table))
            => last.outcome = "scoring_failed"

\* C25 case: an R scoring function returned a table whose second row is shorter
\* than the header, and execute_scoring returned it to go_next
C25_Witness ==
    /\ scoring_language = "r"
    /\ last.raw = Raw("tuple3", <<2, 1>>)
    /\ ScoringReturned
    /\ execute_scoring("r", last.raw).ok

(***************************************************************************)
(* Properties of the CSV log and of the report files (specification        *)
(* SpecLog).                                                               *)
(***************************************************************************)
\* session s is between reading the rows of the log and replacing the log
InCriticalSection(s) == pc[s] \in {"read", "write", "replace"}

\* C26: at any time at most one session is inside the read-modify-write section
\* of the CSV log, and it is the one holding the lock; no session waits for the
\* lock longer than LockWait seconds, and one that gave up and wrote a fallback
\* file waited exactly that long.
C26_OneWriterBoundedWait ==
    /\ Cardinality({s \in Sessions : InCriticalSection(s)}) <= 1
    /\ \A s \in Sessions : InCriticalSection(s) => lock_holder = {s}
    /\ \A s \in Sessions : waited[s] <= LockWait
    /\ \A s \in files.fallback : waited[s] = LockWait

\* C26 witness: one session is about to replace the log while another has
\* waited LockWait seconds for the lock
C26_Witness ==
    \E s, r \in Sessions :
        /\ pc[s] = "replace"
        /\ pc[r] = "lock"
        /\ waited[r] = LockWait

\* the row of session s is in the CSV log or in an archive of it
Logged(s) == s \in Range(main_csv) \cup files.archived

\* the append_to_csv_log call of session s has ended
AppendFinished(s) == append_result[s] \in {"appended", "fallback", "raised"}

DenseOrders(orders) ==
    /\ \A k \in 1..Len(orders) : orders[k].t = "int"
    /\ {orders[k].n : k \in 1..Len(orders)} = 1..Len(orders)

\* C29 as stated: load_yaml returns the configuration of a non-empty question
\* list exactly when every question has an order and the orders are the
\* integers 1..N without gap or duplicate; it raises for every other list.
C29_AcceptsOnlyDenseOrders ==
    (yaml_call.called /\ Len(yaml_call.orders) > 0) =>
        (yaml_call.accepted <=> DenseOrders(yaml_call.orders))

\* C29 case: a file of three questions ordered 1, 2.5 and 3 was accepted
C29_Witness ==
    /\ yaml_call.called
    /\ yaml_call.orders = <<PyInt(1), PyHalf(5), PyInt(3)>>
    /\ yaml_call.accepted

(***************************************************************************)
(* Properties of concurrent sessions (specification SpecSessions).         *)
(***************************************************************************)
\* this step handles a request of the session whose event came in
SessionRequest == load \/ Edit \/ Reload \/ go_next \/ go_prev

FindVerdict(i, qs, context) ==
    LET r == FindScan(i, SubSeq(qs, 1, i + 1), context, 1)
    IN  IF ~r.ok THEN "E" ELSE IF r.val = i THEN "T" ELSE "F"

\* the same for the display-index scan of update_question_display
ScanVerdict(i, qs, context) ==
    LET r == DisplayScan(i, SubSeq(qs, 1, i + 1), context)
    IN  IF ~r.ok THEN "E" ELSE IF r.val = i THEN "T" ELSE "F"

\* C31 as stated (specification SpecFind): for every question and context,
\* find_next_valid_question, the display-index scan, the row visibility and
\* the progress counts take the question for eligible together, for skipped
\* together, or fail together, also when its skip_if key is present but empty.
C31_OneEligibilityPredicate ==
    progress_call.called =>
        \A i \in 0..(N - 1) :
            LET q == questions[i + 1]
                context == progress_call.context
            IN  /\ FindVerdict(i, questions, context) = ScanVerdict(i, questions, context)
                /\ ScanVerdict(i, questions, context) = ConditionMet(q, context)
                /\ ConditionMet(q, context) = CountsAsValid(q, context)

\* C31 case: a question whose skip_if key is present but empty is eligible for
\* the display scan and the row loop while the scan of
\* find_next_valid_question and the counts raise on it
C31_Witness ==
    /\ progress_call.called
    /\ ~progress_call.ok
    /\ \E i \in 0..(N - 1) :
        /\ questions[i + 1].skip_if.op = "null"
        /\ FindVerdict(i, questions, progress_call.context) = "E"
        /\ ScanVerdict(i, questions, progress_call.context) = "T"
        /\ ConditionMet(questions[i + 1], progress_call.context) = "T"
        /\ CountsAsValid(questions[i + 1], progress_call.context) = "E"

(***************************************************************************)
(* Properties of the index the handlers store (specification Spec).        *)
(***************************************************************************)
\* this step is a load, go_next or go_prev that returned its updates
HandlerReturned == (load \/ go_next \/ go_prev) /\ last'.outcome # "raised"

\* C32: after a load, go_next or go_prev that returns, the stored index is N or
\* the index of a question that is not skipped under the context submitted
\* with the request.
C32_StoredIndexEligible ==
    [][HandlerReturned =>
        \/ current_question_idx' = N
        \/ /\ current_question_idx' \in 0..(N - 1)
           /\ EligibleAt(current_question_idx', questions, widget_value)]_vars

\* C32 witness: a retreat whose backward scan found every earlier question
\* skipped and fell back to index 0, itself skipped, stored the first eligible
\* index instead
C32_Witness ==
    /\ last.op = "go_prev"
    /\ last.outcome = "ok"
    /\ SkipTrue(0, questions, widget_value)
    /\ current_question_idx \in 1..(N - 1)
    /\ current_question_idx = last.from
    /\ EligibleAt(current_question_idx, questions, widget_value)

\* C33 as stated: go_next from an index c < N never stores a smaller index; an
\* accepted advance stores an index greater than c and a rejected one (empty
\* answer, valid_if false, valid_if evaluation error) stores exactly c.
C33_AdvanceNeverDecreases ==
    [][(go_next /\ current_question_idx < N) =>
        /\ current_question_idx' >= current_question_idx
        /\ (last'.outcome = "rejected") =>
                current_question_idx' = current_question_idx
        /\ (last'.outcome \notin {"rejected", "raised"}) =>
                current_question_idx' > current_question_idx]_vars

\* C33 case: an advance from index 2 was rejected for an empty answer, and
\* the index stored is 3
C33_Witness ==
    /\ last.op = "go_next"
    /\ last.outcome = "rejected"
    /\ last.warning = Warning("unanswered", 2)
    /\ last.from = 2
    /\ current_question_idx = 3

\* C34 as stated (specification SpecSelfSkip): go_prev from an index c never
\* stores a greater index, whatever the context; when it returns and some
\* question before c is eligible, the index it stores is smaller than c.
C34_RetreatNeverIncreases ==
    [][go_prev =>
        /\ current_question_idx' <= current_question_idx
        /\ (/\ last'.outcome = "ok"
            /\ \E j \in 0..(current_question_idx - 1) :
                    EligibleAt(j, questions, widget_value))
                => current_question_idx' < current_question_idx]_vars

\* C34 case: at index 1, with question 0 skipped, the respondent gave the
\* answer that skips question 1 and pressed Previous; the retreat stored the
\* terminal index
C34_Witness ==
    /\ N = 2
    /\ last.op = "go_prev"
    /\ last.outcome = "ok"
    /\ last.from = 1
    /\ current_question_idx = N
    /\ SkipTrue(0, questions, widget_value)
    /\ SkipTrue(1, questions, widget_value)

\* this step is a go_next that passed the validation gate and returned
AdvanceAccepted ==
    /\ go_next
    /\ current_question_idx < N
    /\ last'.outcome \in {"ok", "scored", "report_failed", "scoring_failed"}

\* the index a go_prev requested at index d with the context stores: the one
\* its projection settles on, or d when the handler raises
RetreatStores(d, context) ==
    LET found == find_next_valid_question(d, questions, context, -1)
        u == update_question_display(found.val, questions, context,
                                     row_visible, widget_interactive)
    IN  IF found.ok /\ u.ok THEN u.display_idx ELSE d

\* C35 as stated: after an accepted advance from a non-terminal index c to d,
\* a retreat requested at once with the same context stores c again, also
\* when d is the terminal index.
C35_AdvanceThenRetreatReturns ==
    [][AdvanceAccepted =>
        RetreatStores(current_question_idx', widget_value)
            = current_question_idx]_vars

\* C35 case: an accepted advance left index 2, whose question the submitted
\* answers skip, and reached the terminal index; the retreat that follows
\* with the same answers stores a smaller index than 2
C35_Witness ==
    /\ last.op = "go_next"
    /\ last.outcome \in {"scored", "report_failed", "scoring_failed"}
    /\ last.from = 2
    /\ current_question_idx = N
    /\ SkipTrue(2, questions, widget_value)
    /\ RetreatStores(current_question_idx, widget_value) < 2

(***************************************************************************)
(* The label of the Next button (specification SpecSelfSkip, where the     *)
(* answers can skip every question).                                       *)
(***************************************************************************)
\* C36: while the stored display index is below N the label of the Next
\* button is the fraction current_valid / total_valid with
\* 1 <= current_valid <= total_valid, the label without a fraction is never
\* shown, and the label reads complete exactly when the index is N or more.
C36_ProgressLabelIsFraction ==
    /\ current_question_idx < N =>
            /\ next_label.kind = "fraction"
            /\ 1 <= next_label.cur
            /\ next_label.cur <= next_label.tot
    /\ next_label.kind # "plain"
    /\ next_label.kind = "done" <=> current_question_idx >= N

\* C36 witness: an advance over the skipped question 0 displays question 1,
\* the only question that counts, with the label 1 / 1
C36_Witness ==
    /\ last.op = "go_next"
    /\ last.outcome = "ok"
    /\ N = 2
    /\ current_question_idx = 1
    /\ SkipTrue(0, questions, widget_value)
    /\ next_label = Label("fraction", 1, 1)

(***************************************************************************)
(* The result components (specification Spec).                             *)
(***************************************************************************)
\* C37 as stated: the result panel and the download button are visible only
\* at the terminal index, the result panel and the error box are never
\* visible together, and after an advance that displays a question the
\* result panel, the download button and the error box are hidden.
C37_ResultOnlyAtTerminal ==
    /\ (result_visible \/ pdf_visible) => current_question_idx = N
    /\ ~(result_visible /\ error_visible)
    /\ (last.op = "go_next" /\ last.outcome = "ok") =>
            (~result_visible /\ ~pdf_visible /\ ~error_visible)

\* C37 case: after a terminal advance that scored and built the report, a
\* retreat requested at the terminal index displays a question and the
\* result panel and the download button are still visible
C37_Witness ==
    /\ last.op = "go_prev"
    /\ last.outcome = "ok"
    /\ last.from = N
    /\ current_question_idx < N
    /\ result_visible
    /\ pdf_visible

(***************************************************************************)
(* The temporary file of the CSV log (specification SpecLog).              *)
(***************************************************************************)
\* C38: the temporary file belongs to the append_to_csv_log call inside
\* "with lock": no step of another call creates, writes, replaces or removes
\* it while that call holds the lock, so a call that fails cannot make the
\* append of another fail.
C38_TempFileOwnedByLockHolder ==
    [][\A s \in Sessions :
            (pc'[s] # pc[s] /\ temp_csv' # temp_csv) => lock_holder \subseteq {s}]_vars

\* C38 case: a call that failed and had left "with lock" removed the
\* temporary file that another call, holding the lock, has written and is
\* about to move over the log: the replace of that call will fail
C38_Witness ==
    \E s, r \in Sessions :
        /\ s # r
        /\ append_result[s] = "raised"
        /\ lock_holder = {r}
        /\ pc[r] = "replace"
        /\ temp_csv = << >>

(***************************************************************************)
(* The rows of the CSV log (specification SpecLog).                        *)
(***************************************************************************)
\* this step is the return of the append_to_csv_log call of session s that
\* went through "with lock"
Appends(s) == append_result[s] = "pending" /\ append_result'[s] = "appended"

C40_Termination ==
    [][/\ load =>
            \A context \in Contexts(questions), current_idx \in 0..N,
               direction \in {1, -1} :
                FindExamined(current_idx + direction, questions, context,
                             direction) <= N
       /\ AdvanceAccepted =>
            /\ current_question_idx < current_question_idx'
            /\ current_question_idx' <= N
            /\ (current_question_idx' = N) <=> ScoringCalled]_vars

\* C40 witness: with no question skipped, a session that never retreated
\* went from index 0 to the terminal index of the longest question list, one
\* question per accepted advance, and the last advance scored
C40_Witness ==
    /\ N = MaxN
    /\ ~retreated
    /\ last.op = "go_next"
    /\ last.outcome = "scored"
    /\ last.from = N - 1
    /\ current_question_idx = N
    /\ \A i \in 0..(N - 1) : questions[i + 1].skip_if.op = "absent"
    /\ \A i \in 0..(N - 1) : shown_at[i] = i

====
